---- MODULE Spec2Model ----
(***************************************************************************)
(* The stream-transform pipeline engine of pyshellscript                   *)
(* (tests/experiments/string_process_std_in_out_test.py, and its earlier   *)
(* variant tests/experiments/std_in_out_test.py).                          *)
(*                                                                         *)
(* A string is a sequence of character codes.  A stage object is a record  *)
(* with the fields the classes declare: cls (the class), buffer_str        *)
(* (None is <<>>, a held string s is <<s>>), buffer (the list of           *)
(* StrBuffer), pipe_processes (the stage list of StrProcPipeProcess) and   *)
(* spaces_per_tab.  Every method is an operator that returns the object    *)
(* after the call together with what the call did: the exception it        *)
(* raised (err), the value it returned and the lines it printed.           *)
(*                                                                         *)
(* One field of the record is history, not a field of the classes:         *)
(* consumed counts the strings the input() of a stage has been given and   *)
(* has not stored (the input() of StrProcPrintFinal and of StrProcNull).   *)
(***************************************************************************)
EXTENDS Integers, Sequences, FiniteSets, TLC

VARIABLES obj,        \* the object the caller drives (a bare stage or a pipeline)
          inputs,     \* the input() calls made on obj: <<[s, ok]>>, ok = returned normally
          outputs,    \* the strings obj.output() has returned, in order
          printed,    \* the strings print() has emitted, in order
          lastCall,   \* the last call made on obj and its outcome
          flat,       \* SpecCompose: the flattened counterpart of obj, given the same calls
          flatOutputs,\* SpecCompose: the strings flat.output() has returned, in order
          pc,         \* SpecStep: "drain" while str_pipe_process of obj runs, else "idle"
          pos,        \* SpecStep: the local variable pos of the running str_pipe_process
          nDirect,    \* SpecDirect: the input() calls made directly on stage 0
          given,      \* SpecConstruct: the list about to be passed to StrProcPipeProcess()
          exhaustedAt \* SpecIter: len(outputs) when the last for loop ended, -1 if none has

vars == <<obj, inputs, outputs, printed, lastCall, flat, flatOutputs, pc, pos, nDirect,
          given, exhaustedAt>>

---------------------------------------------------------------------------
(* Bounds of the model *)

MaxInputs == 2

MaxStages == 2

\* the input() calls of the scenarios of SpecScenario
MaxFed == 3

\* The strings the caller supplies: "a\t" and "\x01B".
Items == { <<97, 9>>, <<1, 66>> }

---------------------------------------------------------------------------
(* StrProcState *)

has_output_default == 0

has_output_and_can_input == 1

can_input_default == 100

can_input_and_parsing_in_process == 101

\* has_output that knows has_output_default only
has_output_exact(value) == value = has_output_default

has_output(value) == value < can_input_default

\* can_input that leaves can_input_default out
can_input_strict(value) == value > can_input_default

can_input(value) == value >= can_input_default

---------------------------------------------------------------------------
(* Exceptions *)

OK == "ok"

ErrFull == "BrokenPipeError: Cannot accept new input: buffer is already full"

ErrEmpty == "BrokenPipeError: Cannot provide output: buffer is empty"

ErrInvalid == "BrokenPipeError: Pipeline is in an invalid state"

ErrIndex == "IndexError: pop from empty list"

\* s.upper(), s.translate(...) or s.replace(...) on a value that is not a str
ErrAttribute == "AttributeError: object has no attribute"

---------------------------------------------------------------------------
(* The classes and their flags *)

TransitClasses == {"StrProcTransit", "StrProcUpper", "StrProcPrint",
                   "StrProcRemoveControlChars", "StrProcReplaceTabs",
                   "std_in_out_test.StrProcPrint"}

SinkClasses == {"StrProcPrintFinal", "StrProcNull"}

LeafClasses == TransitClasses \cup SinkClasses \cup {"StrBuffer"}

class_flags(cls) ==
    CASE cls = "StrProcPrintFinal" -> {"no_output"}
      [] cls = "StrProcNull" -> {"no_output", "is_infinity_input"}
      [] cls = "std_in_out_test.StrProcPrint" -> {"no_output"}
      [] cls = "StrBuffer" -> {"is_infinity_input", "input_buffer_has_memory_limit"}
      [] cls = "StrProcPipeProcess" -> {"has_sub_proc"}
      [] OTHER -> {"is_transit_1_by_1"}

\* The default of StrProcReplaceTabs.__init__(spaces_per_tab=4).
default_spaces_per_tab == 4

\* A freshly constructed stage of a leaf class.
NewStage(cls) ==
    [cls |-> cls, buffer_str |-> <<>>, buffer |-> <<>>, pipe_processes |-> <<>>,
     spaces_per_tab |-> IF cls = "StrProcReplaceTabs" THEN default_spaces_per_tab ELSE 0,
     consumed |-> 0]

\* a constructor that appends the StrBuffer whatever the last stage declares
NewPipeProcess_always_append(pipe_processes) ==
    [cls |-> "StrProcPipeProcess", buffer_str |-> <<>>, buffer |-> <<>>,
     pipe_processes |-> Append(pipe_processes, NewStage("StrBuffer")),
     spaces_per_tab |-> 0, consumed |-> 0]

\* StrProcPipeProcess.__init__: a StrBuffer is appended unless the last
\* stage declares is_infinity_input.
NewPipeProcess(pipe_processes) ==
    [cls |-> "StrProcPipeProcess", buffer_str |-> <<>>, buffer |-> <<>>,
     pipe_processes |->
        IF "is_infinity_input" \notin class_flags(pipe_processes[Len(pipe_processes)].cls)
        THEN Append(pipe_processes, NewStage("StrBuffer"))
        ELSE pipe_processes,
     spaces_per_tab |-> 0, consumed |-> 0]

---------------------------------------------------------------------------
(* The string transforms *)

\* A value that is not a str (an int, say): input() is not typed at run time.
\* It is written as a sequence no str is, one with a negative character code.
NotAStr == <<-1>>

IsStr(s) == \A i \in 1..Len(s) : s[i] >= 0

\* str.upper on the ASCII letters
upper(s) == [i \in 1..Len(s) |-> IF s[i] \in 97..122 THEN s[i] - 32 ELSE s[i]]

\* the characters deleted by _trans_table
delete_chars == (0..31) \ {9, 10, 13}

translate(s) == SelectSeq(s, LAMBDA c : c \notin delete_chars)

RECURSIVE spaces(_)
spaces(n) == IF n <= 0 THEN <<>> ELSE <<32>> \o spaces(n - 1)

\* a replacement of each tab by one space, whatever n
replace_tabs_one_space(s, n) == [i \in 1..Len(s) |-> IF s[i] = 9 THEN 32 ELSE s[i]]

RECURSIVE replace_tabs(_, _)
replace_tabs(s, n) ==
    IF s = <<>> THEN <<>>
    ELSE (IF Head(s) = 9 THEN spaces(n) ELSE <<Head(s)>>) \o replace_tabs(Tail(s), n)

---------------------------------------------------------------------------
(* Dynamic dispatch: the four methods of AbstractStrProc.                  *)
(*   input(self, s)  = [self, err, printed, in_drain]                      *)
(*   output(self)    = [self, err, item]    (item: <<>> or <<the string>>) *)
(*   state(self)     = [err, value]                                        *)
(*   eof(self)       = [self, err, printed, in_drain]                      *)
(* in_drain says that the exception was raised inside str_pipe_process.    *)

RECURSIVE input(_, _)
RECURSIVE output(_)
RECURSIVE state(_)
RECURSIVE eof(_)

\* __bool__(self), and one resumption of the generator __iter__(self) returns:
\*   iter_next(self) = [self, err, item, done]   (done: the generator returned)
RECURSIVE bool(_)
RECURSIVE iter_next(_)

---------------------------------------------------------------------------
(* StrProcTransit (StrProcBase in std_in_out_test.py) *)

\* input that stores without testing the slot
StrProcTransit_input_overwrite(self, s) ==
    [self |-> [self EXCEPT !.buffer_str = <<s>>], err |-> OK,
     printed |-> <<>>, in_drain |-> FALSE]

StrProcTransit_input(self, s) ==
    IF self.buffer_str # <<>>
    THEN [self |-> self, err |-> ErrFull, printed |-> <<>>, in_drain |-> FALSE]
    ELSE [self |-> [self EXCEPT !.buffer_str = <<s>>], err |-> OK,
          printed |-> <<>>, in_drain |-> FALSE]

StrProcTransit_eof(self) ==
    [self |-> self, err |-> OK, printed |-> <<>>, in_drain |-> FALSE]

StrProcTransit_output(self) ==
    IF self.buffer_str = <<>>
    THEN [self |-> self, err |-> ErrEmpty, item |-> <<>>]
    ELSE [self |-> [self EXCEPT !.buffer_str = <<>>], err |-> OK,
          item |-> self.buffer_str]

\* state with the test of the slot inverted
StrProcTransit_state_inverted(self) ==
    [err |-> OK,
     value |-> IF self.buffer_str = <<>> THEN has_output_default ELSE can_input_default]

\* state that reports can_input_default whatever the slot holds
StrProcTransit_state_always_can_input(self) == [err |-> OK, value |-> can_input_default]

StrProcTransit_state(self) ==
    [err |-> OK,
     value |-> IF self.buffer_str = <<>> THEN can_input_default ELSE has_output_default]

StrProcTransit_bool(self) == has_output(StrProcTransit_state(self).value)

\* while self: yield self.output()
StrProcTransit_iter_next(self) ==
    IF bool(self)
    THEN LET o == output(self)
         IN  [self |-> o.self, err |-> o.err, item |-> o.item, done |-> o.err # OK]
    ELSE [self |-> self, err |-> OK, item |-> <<>>, done |-> TRUE]

(* The subclasses of StrProcTransit override input only. *)

\* s.upper() raises before super().input is called
StrProcUpper_input(self, s) ==
    IF ~IsStr(s)
    THEN [self |-> self, err |-> ErrAttribute, printed |-> <<>>, in_drain |-> FALSE]
    ELSE StrProcTransit_input(self, upper(s))

\* print() runs before super().input(s)
\* a StrProcPrint that writes its line twice
StrProcPrint_input_print_twice(self, s) ==
    [StrProcTransit_input(self, s) EXCEPT !.printed = <<s, s>> \o @]

StrProcPrint_input(self, s) ==
    [StrProcTransit_input(self, s) EXCEPT !.printed = <<s>> \o @]

\* a StrProcPrintFinal that stores what it prints, as StrProcPrint does
StrProcPrintFinal_input_forwarding(self, s) ==
    [StrProcTransit_input(self, s) EXCEPT !.printed = <<s>> \o @]

StrProcPrintFinal_input(self, s) ==
    [self |-> [self EXCEPT !.consumed = @ + 1], err |-> OK, printed |-> <<s>>,
     in_drain |-> FALSE]

StrProcNull_input(self, s) ==
    [self |-> [self EXCEPT !.consumed = @ + 1], err |-> OK, printed |-> <<>>,
     in_drain |-> FALSE]

StrProcRemoveControlChars_input(self, s) ==
    IF ~IsStr(s)
    THEN [self |-> self, err |-> ErrAttribute, printed |-> <<>>, in_drain |-> FALSE]
    ELSE StrProcTransit_input(self, translate(s))

StrProcReplaceTabs_input(self, s) ==
    IF ~IsStr(s)
    THEN [self |-> self, err |-> ErrAttribute, printed |-> <<>>, in_drain |-> FALSE]
    ELSE StrProcTransit_input(self, replace_tabs(s, self.spaces_per_tab))

---------------------------------------------------------------------------
(* StrBuffer (StrBufferBase in std_in_out_test.py) *)

\* input of a queue of one place
StrBuffer_input_bounded(self, s) ==
    IF self.buffer # <<>>
    THEN [self |-> self, err |-> ErrFull, printed |-> <<>>, in_drain |-> FALSE]
    ELSE [self |-> [self EXCEPT !.buffer = Append(@, s)], err |-> OK,
          printed |-> <<>>, in_drain |-> FALSE]

\* input that appends s twice
StrBuffer_input_twice(self, s) ==
    [self |-> [self EXCEPT !.buffer = @ \o <<s, s>>], err |-> OK,
     printed |-> <<>>, in_drain |-> FALSE]

\* input that drops s
StrBuffer_input_drop(self, s) ==
    [self |-> self, err |-> OK, printed |-> <<>>, in_drain |-> FALSE]

StrBuffer_input(self, s) ==
    [self |-> [self EXCEPT !.buffer = Append(@, s)], err |-> OK,
     printed |-> <<>>, in_drain |-> FALSE]

\* output that pops the newest string, list.pop()
StrBuffer_output_pop_last(self) ==
    IF self.buffer = <<>>
    THEN [self |-> self, err |-> ErrIndex, item |-> <<>>]
    ELSE [self |-> [self EXCEPT !.buffer = SubSeq(@, 1, Len(@) - 1)], err |-> OK,
          item |-> <<self.buffer[Len(self.buffer)]>>]

\* list.pop(0): IndexError on an empty list
StrBuffer_output(self) ==
    IF self.buffer = <<>>
    THEN [self |-> self, err |-> ErrIndex, item |-> <<>>]
    ELSE [self |-> [self EXCEPT !.buffer = Tail(@)], err |-> OK,
          item |-> <<Head(self.buffer)>>]

StrBuffer_state(self) ==
    [err |-> OK,
     value |-> IF Len(self.buffer) = 0 THEN can_input_default ELSE has_output_default]

StrBuffer_bool(self) == Len(self.buffer) > 0

\* a generator that ends after its first yield
StrBuffer_iter_next_once(self) ==
    IF bool(self)
    THEN LET o == output(self)
         IN  [self |-> o.self, err |-> o.err, item |-> o.item, done |-> TRUE]
    ELSE [self |-> self, err |-> OK, item |-> <<>>, done |-> TRUE]

\* while self: yield self.output()
StrBuffer_iter_next(self) ==
    IF bool(self)
    THEN LET o == output(self)
         IN  [self |-> o.self, err |-> o.err, item |-> o.item, done |-> o.err # OK]
    ELSE [self |-> self, err |-> OK, item |-> <<>>, done |-> TRUE]

---------------------------------------------------------------------------
(* StrProcPipeProcess *)

\* an iteration that goes on to the left after a hand-off (no "reset cycle")
drain_iteration_no_reset(d) ==
    LET p == d.pos - 1
        cur == d.stages[p + 1]
    IN  IF has_output(state(cur).value)
        THEN LET o == output(cur)
                 i == input(d.stages[p + 2], o.item[1])
             IN  [d EXCEPT !.pos = p, !.err = i.err,
                           !.stages = [d.stages EXCEPT ![p + 1] = o.self,
                                                       ![p + 2] = i.self],
                           !.printed = @ \o i.printed, !.handoffs = @ + 1]
        ELSE [d EXCEPT !.pos = p]

\* an iteration that, after a hand-off, goes back to stage 0 only
drain_iteration_reset_to_head(d) ==
    LET p == d.pos - 1
        cur == d.stages[p + 1]
    IN  IF has_output(state(cur).value)
        THEN LET o == output(cur)
                 i == input(d.stages[p + 2], o.item[1])
             IN  [d EXCEPT !.pos = 1, !.err = i.err,
                           !.stages = [d.stages EXCEPT ![p + 1] = o.self,
                                                       ![p + 2] = i.self],
                           !.printed = @ \o i.printed, !.handoffs = @ + 1]
        ELSE [d EXCEPT !.pos = p]

\* an iteration that ends the loop after a hand-off
drain_iteration_stop_after_handoff(d) ==
    LET p == d.pos - 1
        cur == d.stages[p + 1]
    IN  IF has_output(state(cur).value)
        THEN LET o == output(cur)
                 i == input(d.stages[p + 2], o.item[1])
             IN  [d EXCEPT !.pos = 0, !.err = i.err,
                           !.stages = [d.stages EXCEPT ![p + 1] = o.self,
                                                       ![p + 2] = i.self],
                           !.printed = @ \o i.printed, !.handoffs = @ + 1]
        ELSE [d EXCEPT !.pos = p]

\* One iteration of the while loop of str_pipe_process, on the loop's state
\* d = [stages, pos, err, printed, handoffs]; the caller has tested pos > 0.
drain_iteration(d) ==
    LET p == d.pos - 1
        cur == d.stages[p + 1]
        st == state(cur)
    IN  IF st.err # OK THEN [d EXCEPT !.pos = p, !.err = st.err]
        ELSE IF has_output(st.value)
        THEN LET o == output(cur)
             IN  IF o.err # OK
                 THEN [d EXCEPT !.pos = p, !.err = o.err, !.stages[p + 1] = o.self]
                 ELSE LET i == input(d.stages[p + 2], o.item[1])
                          moved == [d.stages EXCEPT ![p + 1] = o.self,
                                                    ![p + 2] = i.self]
                      IN  IF i.err # OK
                          THEN [d EXCEPT !.pos = p, !.err = i.err, !.stages = moved,
                                         !.printed = @ \o i.printed]
                          ELSE [d EXCEPT !.pos = Len(d.stages) - 1, !.stages = moved,
                                         !.printed = @ \o i.printed,
                                         !.handoffs = @ + 1]
        ELSE [d EXCEPT !.pos = p]

\* a loop that makes one iteration only
drain_loop_single(d) ==
    IF d.err = OK /\ d.pos > 0 THEN drain_iteration(d) ELSE d

RECURSIVE drain_loop(_)
drain_loop(d) ==
    IF d.err = OK /\ d.pos > 0 THEN drain_loop(drain_iteration(d)) ELSE d

\* a start one stage too far to the left: pos = len(self.pipe_processes) - 2
drain_start_skip_last(pipe_processes) ==
    [stages |-> pipe_processes, pos |-> Len(pipe_processes) - 2, err |-> OK,
     printed |-> <<>>, handoffs |-> 0]

drain_start(pipe_processes) ==
    [stages |-> pipe_processes, pos |-> Len(pipe_processes) - 1, err |-> OK,
     printed |-> <<>>, handoffs |-> 0]

str_pipe_process(pipe_processes) == drain_loop(drain_start(pipe_processes))

\* input that hands s to stage 0 and returns without str_pipe_process
StrProcPipeProcess_input_no_drain(self, s) ==
    LET r == input(self.pipe_processes[1], s)
    IN  [self |-> [self EXCEPT !.pipe_processes[1] = r.self], err |-> r.err,
         printed |-> r.printed, in_drain |-> r.in_drain]

\* input that runs str_pipe_process first and hands s to stage 0 after it
StrProcPipeProcess_input_drain_first(self, s) ==
    LET d == str_pipe_process(self.pipe_processes)
        r == input(d.stages[1], s)
    IN  IF d.err # OK
        THEN [self |-> [self EXCEPT !.pipe_processes = d.stages], err |-> d.err,
              printed |-> d.printed, in_drain |-> TRUE]
        ELSE [self |-> [self EXCEPT !.pipe_processes = [d.stages EXCEPT ![1] = r.self]],
              err |-> r.err, printed |-> d.printed \o r.printed, in_drain |-> r.in_drain]

StrProcPipeProcess_input(self, s) ==
    LET r == input(self.pipe_processes[1], s)
        pp == [self.pipe_processes EXCEPT ![1] = r.self]
    IN  IF r.err # OK
        THEN [self |-> [self EXCEPT !.pipe_processes = pp], err |-> r.err,
              printed |-> r.printed, in_drain |-> r.in_drain]
        ELSE LET d == str_pipe_process(pp)
             IN  [self |-> [self EXCEPT !.pipe_processes = d.stages], err |-> d.err,
                  printed |-> r.printed \o d.printed, in_drain |-> d.err # OK]

StrProcPipeProcess_output(self) ==
    LET n == Len(self.pipe_processes)
        r == output(self.pipe_processes[n])
    IN  [self |-> [self EXCEPT !.pipe_processes[n] = r.self], err |-> r.err,
         item |-> r.item]

\* for p in self.pipe_processes: p.eof()  -- from stage k on
RECURSIVE eof_each(_, _)
eof_each(e, k) ==
    IF e.err # OK \/ k > Len(e.stages) THEN e
    ELSE LET r == eof(e.stages[k])
         IN  eof_each([stages |-> [e.stages EXCEPT ![k] = r.self], err |-> r.err,
                       printed |-> e.printed \o r.printed, in_drain |-> r.in_drain],
                      k + 1)

StrProcPipeProcess_eof(self) ==
    LET e == eof_each([stages |-> self.pipe_processes, err |-> OK,
                       printed |-> <<>>, in_drain |-> FALSE], 1)
    IN  IF e.err # OK
        THEN [self |-> [self EXCEPT !.pipe_processes = e.stages], err |-> e.err,
              printed |-> e.printed, in_drain |-> e.in_drain]
        ELSE LET d == str_pipe_process(e.stages)
             IN  [self |-> [self EXCEPT !.pipe_processes = d.stages], err |-> d.err,
                  printed |-> e.printed \o d.printed, in_drain |-> d.err # OK]

\* state that answers can_input_default where the code raises
StrProcPipeProcess_state_no_raise(self) ==
    LET tail == state(self.pipe_processes[Len(self.pipe_processes)])
        head == state(self.pipe_processes[1])
    IN  IF has_output(tail.value)
        THEN IF can_input(head.value)
             THEN [err |-> OK, value |-> has_output_and_can_input]
             ELSE [err |-> OK, value |-> has_output_default]
        ELSE [err |-> OK, value |-> can_input_default]

StrProcPipeProcess_state(self) ==
    LET tail == state(self.pipe_processes[Len(self.pipe_processes)])
        head == state(self.pipe_processes[1])
    IN  IF tail.err # OK THEN tail
        ELSE IF has_output(tail.value)
        THEN IF head.err # OK THEN head
             ELSE IF can_input(head.value)
             THEN [err |-> OK, value |-> has_output_and_can_input]
             ELSE [err |-> OK, value |-> has_output_default]
        ELSE IF head.err # OK THEN head
        ELSE IF can_input(head.value)
        THEN [err |-> OK, value |-> can_input_default]
        ELSE [err |-> ErrInvalid, value |-> -1]

StrProcPipeProcess_bool(self) == bool(self.pipe_processes[Len(self.pipe_processes)])

\* __iter__ returns iter(self.pipe_processes[-1]): the generator of the tail
StrProcPipeProcess_iter_next(self) ==
    LET n == Len(self.pipe_processes)
        r == iter_next(self.pipe_processes[n])
    IN  [r EXCEPT !.self = [self EXCEPT !.pipe_processes[n] = r.self]]

---------------------------------------------------------------------------
(* The dispatchers *)

input(self, s) ==
    CASE self.cls = "StrProcPipeProcess" -> StrProcPipeProcess_input(self, s)
      [] self.cls = "StrBuffer" -> StrBuffer_input(self, s)
      [] self.cls = "StrProcUpper" -> StrProcUpper_input(self, s)
      [] self.cls \in {"StrProcPrint", "std_in_out_test.StrProcPrint"} ->
            StrProcPrint_input(self, s)
      [] self.cls = "StrProcPrintFinal" -> StrProcPrintFinal_input(self, s)
      [] self.cls = "StrProcNull" -> StrProcNull_input(self, s)
      [] self.cls = "StrProcRemoveControlChars" -> StrProcRemoveControlChars_input(self, s)
      [] self.cls = "StrProcReplaceTabs" -> StrProcReplaceTabs_input(self, s)
      [] OTHER -> StrProcTransit_input(self, s)

output(self) ==
    CASE self.cls = "StrProcPipeProcess" -> StrProcPipeProcess_output(self)
      [] self.cls = "StrBuffer" -> StrBuffer_output(self)
      [] OTHER -> StrProcTransit_output(self)

state(self) ==
    CASE self.cls = "StrProcPipeProcess" -> StrProcPipeProcess_state(self)
      [] self.cls = "StrBuffer" -> StrBuffer_state(self)
      [] OTHER -> StrProcTransit_state(self)

eof(self) ==
    CASE self.cls = "StrProcPipeProcess" -> StrProcPipeProcess_eof(self)
      [] OTHER -> StrProcTransit_eof(self)

bool(self) ==
    CASE self.cls = "StrProcPipeProcess" -> StrProcPipeProcess_bool(self)
      [] self.cls = "StrBuffer" -> StrBuffer_bool(self)
      [] OTHER -> StrProcTransit_bool(self)

iter_next(self) ==
    CASE self.cls = "StrProcPipeProcess" -> StrProcPipeProcess_iter_next(self)
      [] self.cls = "StrBuffer" -> StrBuffer_iter_next(self)
      [] OTHER -> StrProcTransit_iter_next(self)

---------------------------------------------------------------------------
(* The objects the caller constructs *)

LeafStages == {NewStage(cls) : cls \in LeafClasses}

\* The stages pipelines are built from.  std_in_out_test.StrProcPrint differs
\* from StrProcPrint in its class_flags only, and neither flag set holds
\* is_infinity_input, so inside a pipeline the two behave alike.
PipeStages == {NewStage(cls) : cls \in LeafClasses \ {"std_in_out_test.StrProcPrint"}}

\* One stage of each way of taking part in a drain: a transforming single-slot
\* stage, a printing single-slot stage, the two sinks and the buffer.  The
\* other single-slot classes differ from StrProcUpper in the transform only.
CoreStages == {NewStage(cls) : cls \in {"StrProcUpper", "StrProcPrint",
                                        "StrProcPrintFinal", "StrProcNull", "StrBuffer"}}

\* the pairs <<A, B>> of lists of stages of S, A not empty, of at most
\* MaxStages stages together
ListPairs(S) ==
    UNION {UNION {[1..a -> S] \X [1..b -> S] : b \in 0..(MaxStages - a)} :
              a \in 1..MaxStages}

BareStages == LeafStages

FlatPipelines(S) == {NewPipeProcess(c[1] \o c[2]) : c \in ListPairs(S)}

\* StrProcPipeProcess([StrProcPipeProcess(A)] + B)
NestedFirst(A, B) == NewPipeProcess(<<NewPipeProcess(A)>> \o B)

\* StrProcPipeProcess(B + [StrProcPipeProcess(A)])
NestedLast(A, B) == NewPipeProcess(B \o <<NewPipeProcess(A)>>)

NestedPipelines(S) ==
    {NestedFirst(c[1], c[2]) : c \in ListPairs(S)}
        \cup {NestedLast(c[1], c[2]) : c \in ListPairs(S)}

Constructions == BareStages \cup FlatPipelines(PipeStages) \cup NestedPipelines(CoreStages)

---------------------------------------------------------------------------
(* The state machine: the caller's calls on obj *)

IsPipe(o) == o.cls = "StrProcPipeProcess"

NoCall == [op |-> "none", arg |-> <<>>, err |-> OK, in_drain |-> FALSE, item |-> <<>>]

Fresh ==
    /\ inputs = <<>>
    /\ outputs = <<>>
    /\ flatOutputs = <<>>
    /\ printed = <<>>
    /\ lastCall = NoCall
    /\ pc = "idle"
    /\ pos = 0
    /\ nDirect = 0
    /\ given = <<>>
    /\ exhaustedAt = -1

Init ==
    /\ obj \in Constructions
    /\ flat = <<>>
    /\ Fresh

\* obj.input(s), run to completion
DoInput(s) ==
    /\ pc = "idle"
    /\ LET r == input(obj, s)
       IN  /\ obj' = r.self
           /\ inputs' = Append(inputs, [s |-> s, ok |-> r.err = OK])
           /\ printed' = printed \o r.printed
           /\ lastCall' = [NoCall EXCEPT !.op = "input", !.arg = <<s>>, !.err = r.err,
                                         !.in_drain = r.in_drain]
    /\ UNCHANGED <<outputs, pc, pos, nDirect, given, exhaustedAt>>

\* the caller makes at most MaxInputs calls of input()
CallInput(s) == Len(inputs) + nDirect < MaxInputs /\ DoInput(s)

\* obj.output()
CallOutput ==
    /\ pc = "idle"
    /\ LET r == output(obj)
       IN  /\ obj' = r.self
           /\ outputs' = outputs \o r.item
           /\ lastCall' = [NoCall EXCEPT !.op = "output", !.err = r.err, !.item = r.item]
    /\ UNCHANGED <<inputs, printed, pc, pos, nDirect, given, exhaustedAt>>

\* obj.eof(), run to completion
CallEof ==
    /\ pc = "idle"
    /\ LET r == eof(obj)
       IN  /\ obj' = r.self
           /\ printed' = printed \o r.printed
           /\ lastCall' = [NoCall EXCEPT !.op = "eof", !.err = r.err,
                                         !.in_drain = r.in_drain]
    /\ UNCHANGED <<inputs, outputs, pc, pos, nDirect, given, exhaustedAt>>

Input(s) == CallInput(s) /\ UNCHANGED <<flat, flatOutputs>>

Output == CallOutput /\ UNCHANGED <<flat, flatOutputs>>

Eof == CallEof /\ UNCHANGED <<flat, flatOutputs>>

Next == (\E s \in Items : Input(s)) \/ Output \/ Eof

Spec == Init /\ [][Next]_vars

---------------------------------------------------------------------------
(* The same calls, with the caller also calling input() of the first stage *)
(* directly: pipe_processes is the caller's own list, and the stages in it *)
(* are the caller's own objects.                                           *)

InitDirect ==
    /\ obj \in FlatPipelines(CoreStages) \cup NestedPipelines(CoreStages)
    /\ flat = <<>>
    /\ Fresh

\* obj.pipe_processes[0].input(s), called by the caller (no draining follows)
DirectInput(s) ==
    /\ pc = "idle"
    /\ Len(inputs) + nDirect < MaxInputs
    /\ LET r == input(obj.pipe_processes[1], s)
       IN  /\ obj' = [obj EXCEPT !.pipe_processes[1] = r.self]
           /\ printed' = printed \o r.printed
           /\ lastCall' = [NoCall EXCEPT !.op = "direct input", !.arg = <<s>>,
                                         !.err = r.err, !.in_drain = r.in_drain]
    /\ nDirect' = nDirect + 1
    /\ UNCHANGED <<inputs, outputs, flat, flatOutputs, pc, pos, given, exhaustedAt>>

NextDirect ==
    \/ \E s \in Items : Input(s)
    \/ Output
    \/ Eof
    \/ \E s \in Items : DirectInput(s)

SpecDirect == InitDirect /\ [][NextDirect]_vars

---------------------------------------------------------------------------
(* A nested pipeline and its flattened counterpart, driven by the same     *)
(* calls.                                                                  *)

InitCompose ==
    /\ \E c \in ListPairs(PipeStages) :
          /\ obj = NestedFirst(c[1], c[2])
          /\ flat = NewPipeProcess(c[1] \o c[2])
    /\ Fresh

InputBoth(s) == CallInput(s) /\ flat' = input(flat, s).self /\ UNCHANGED flatOutputs

OutputBoth ==
    /\ CallOutput
    /\ LET f == output(flat)
       IN  flat' = f.self /\ flatOutputs' = flatOutputs \o f.item

EofBoth == CallEof /\ flat' = eof(flat).self /\ UNCHANGED flatOutputs

NextCompose == (\E s \in Items : InputBoth(s)) \/ OutputBoth \/ EofBoth

SpecCompose == InitCompose /\ [][NextCompose]_vars

---------------------------------------------------------------------------
(* The calls on a pipeline with str_pipe_process running one iteration of  *)
(* its while loop at a time.  Nothing else runs while it does: the caller  *)
(* is inside input() or eof().                                             *)

InitStep ==
    /\ obj \in FlatPipelines(CoreStages) \cup NestedPipelines(CoreStages)
    /\ flat = <<>>
    /\ Fresh

\* input(): self.pipe_processes[0].input(s), then str_pipe_process starts
BeginInput(s) ==
    /\ pc = "idle"
    /\ Len(inputs) + nDirect < MaxInputs
    /\ LET r == input(obj.pipe_processes[1], s)
       IN  /\ obj' = [obj EXCEPT !.pipe_processes[1] = r.self]
           /\ inputs' = Append(inputs, [s |-> s, ok |-> r.err = OK])
           /\ printed' = printed \o r.printed
           /\ lastCall' = [NoCall EXCEPT !.op = "input", !.arg = <<s>>, !.err = r.err,
                                         !.in_drain = r.in_drain]
           /\ pc' = IF r.err = OK THEN "drain" ELSE "idle"
           /\ pos' = IF r.err = OK THEN Len(obj.pipe_processes) - 1 ELSE pos
    /\ UNCHANGED <<outputs, flat, flatOutputs, nDirect, given, exhaustedAt>>

\* eof(): p.eof() for every stage, then str_pipe_process starts
BeginEof ==
    /\ pc = "idle"
    /\ LET e == eof_each([stages |-> obj.pipe_processes, err |-> OK,
                          printed |-> <<>>, in_drain |-> FALSE], 1)
       IN  /\ obj' = [obj EXCEPT !.pipe_processes = e.stages]
           /\ printed' = printed \o e.printed
           /\ lastCall' = [NoCall EXCEPT !.op = "eof", !.err = e.err,
                                         !.in_drain = e.in_drain]
           /\ pc' = IF e.err = OK THEN "drain" ELSE "idle"
           /\ pos' = IF e.err = OK THEN Len(obj.pipe_processes) - 1 ELSE pos
    /\ UNCHANGED <<inputs, outputs, flat, flatOutputs, nDirect, given, exhaustedAt>>

\* while pos > 0: one iteration; an exception ends the call
DrainIteration ==
    /\ pc = "drain"
    /\ pos > 0
    /\ LET d == drain_iteration([drain_start(obj.pipe_processes) EXCEPT !.pos = pos])
       IN  /\ obj' = [obj EXCEPT !.pipe_processes = d.stages]
           /\ pos' = d.pos
           /\ printed' = printed \o d.printed
           /\ pc' = IF d.err = OK THEN "drain" ELSE "idle"
           /\ lastCall' = IF d.err = OK THEN lastCall
                          ELSE [lastCall EXCEPT !.err = d.err, !.in_drain = TRUE]
           /\ inputs' = IF d.err = OK \/ lastCall.op # "input" THEN inputs
                        ELSE [inputs EXCEPT ![Len(inputs)].ok = FALSE]
    /\ UNCHANGED <<outputs, flat, flatOutputs, nDirect, given, exhaustedAt>>

\* the while condition is false: str_pipe_process, and the call, return
DrainReturn ==
    /\ pc = "drain"
    /\ ~(pos > 0)
    /\ pc' = "idle"
    /\ UNCHANGED <<obj, inputs, outputs, printed, lastCall, flat, flatOutputs, pos, nDirect,
                   given, exhaustedAt>>

Drain == DrainIteration \/ DrainReturn

NextStep == (\E s \in Items : BeginInput(s)) \/ BeginEof \/ Output \/ Drain

\* input() and eof() run to completion: the loop is never abandoned
SpecStep == InitStep /\ [][NextStep]_vars /\ WF_vars(Drain)

---------------------------------------------------------------------------
(* The construction of the pipeline as a step of its own: the caller holds *)
(* a list of stages, passes it to StrProcPipeProcess(), and then makes the *)
(* calls of Spec on the pipeline.                                          *)

\* the stage lists the caller passes: flat ones, and ones that hold a pipeline
GivenLists ==
    {c[1] \o c[2] : c \in ListPairs(PipeStages)}
        \cup {<<NewPipeProcess(c[1])>> \o c[2] : c \in ListPairs(CoreStages)}
        \cup {c[2] \o <<NewPipeProcess(c[1])>> : c \in ListPairs(CoreStages)}

\* no object yet
NotConstructed ==
    [cls |-> "None", buffer_str |-> <<>>, buffer |-> <<>>, pipe_processes |-> <<>>,
     spaces_per_tab |-> 0, consumed |-> 0]

InitConstruct ==
    /\ given \in GivenLists
    /\ obj = NotConstructed
    /\ flat = <<>>
    /\ inputs = <<>>
    /\ outputs = <<>>
    /\ flatOutputs = <<>>
    /\ printed = <<>>
    /\ lastCall = NoCall
    /\ pc = "new"
    /\ pos = 0
    /\ nDirect = 0
    /\ exhaustedAt = -1

\* obj = StrProcPipeProcess(given); from here on the list is obj.pipe_processes
Construct ==
    /\ pc = "new"
    /\ obj' = NewPipeProcess(given)
    /\ given' = <<>>
    /\ lastCall' = [NoCall EXCEPT !.op = "__init__"]
    /\ pc' = "idle"
    /\ UNCHANGED <<inputs, outputs, printed, flat, flatOutputs, pos, nDirect, exhaustedAt>>

NextConstruct == Construct \/ (\E s \in Items : Input(s)) \/ Output \/ Eof

SpecConstruct == InitConstruct /\ [][NextConstruct]_vars

---------------------------------------------------------------------------
(* The pipelines of the end-to-end scenarios, fed up to MaxFed strings.    *)

\* 'Hello\x01\tworld\x03'
Hello == <<72, 101, 108, 108, 111, 1, 9, 119, 111, 114, 108, 100, 3>>

\* '\r\n\x00\x1f \tz'
Controls == <<13, 10, 0, 31, 32, 9, 122>>

ScenarioItems == Items \cup {Hello, Controls}

\* StrProcReplaceTabs(n)
NewReplaceTabs(n) == [NewStage("StrProcReplaceTabs") EXCEPT !.spaces_per_tab = n]

ScenarioPipelines ==
    {NewPipeProcess(<<NewStage("StrProcUpper"), NewStage("StrProcNull")>>),
     NewPipeProcess(<<NewStage("StrProcUpper"), NewStage("StrProcPrintFinal")>>),
     NewPipeProcess(<<NewStage("StrProcRemoveControlChars"), NewReplaceTabs(8),
                      NewStage("StrProcUpper")>>),
     NewPipeProcess(<<NewStage("StrProcRemoveControlChars"),
                      NewStage("StrProcReplaceTabs"), NewStage("StrProcUpper")>>),
     NewPipeProcess(<<NewStage("StrProcPrint"), NewStage("StrProcUpper"),
                      NewStage("StrProcPrint")>>),
     NewPipeProcess(<<NewStage("StrProcUpper"), NewStage("StrProcPrint"),
                      NewStage("StrBuffer"), NewStage("StrProcPrint")>>)}

InitScenario ==
    /\ obj \in ScenarioPipelines
    /\ flat = <<>>
    /\ Fresh

Feed(s) == Len(inputs) < MaxFed /\ DoInput(s) /\ UNCHANGED <<flat, flatOutputs>>

NextScenario == (\E s \in ScenarioItems : Feed(s)) \/ Output \/ Eof

SpecScenario == InitScenario /\ [][NextScenario]_vars

---------------------------------------------------------------------------
(* The caller's loop "for s_tmp in obj: print(...)": the for statement     *)
(* takes iter(obj) and resumes the generator until it returns; the body    *)
(* does not touch obj.                                                     *)

InitIter ==
    /\ obj \in FlatPipelines(CoreStages) \cup NestedPipelines(CoreStages)
    /\ flat = <<>>
    /\ Fresh

\* for ... in obj:
ForBegin ==
    /\ pc = "idle"
    /\ pc' = "iter"
    /\ lastCall' = [NoCall EXCEPT !.op = "iter"]
    /\ UNCHANGED <<obj, inputs, outputs, printed, flat, flatOutputs, pos, nDirect, given,
                   exhaustedAt>>

\* the for statement resumes the generator: the next string, or the end of the loop
ForNext ==
    /\ pc = "iter"
    /\ LET r == iter_next(obj)
       IN  /\ obj' = r.self
           /\ outputs' = outputs \o r.item
           /\ lastCall' = [NoCall EXCEPT !.op = "next", !.err = r.err, !.item = r.item]
           /\ pc' = IF r.done THEN "idle" ELSE "iter"
           /\ exhaustedAt' = IF r.done THEN Len(outputs') ELSE exhaustedAt
    /\ UNCHANGED <<inputs, printed, flat, flatOutputs, pos, nDirect, given>>

NextIter == (\E s \in Items : Input(s)) \/ Output \/ Eof \/ ForBegin \/ ForNext

SpecIter == InitIter /\ [][NextIter]_vars

---------------------------------------------------------------------------
(* The calls of Spec on a pipeline, with a caller that also passes a value *)
(* the transforming stages cannot process.                                 *)

FaultItems == {<<97, 9>>, NotAStr}

InitFault ==
    /\ obj \in FlatPipelines(CoreStages) \cup NestedPipelines(CoreStages)
    /\ flat = <<>>
    /\ Fresh

NextFault == (\E s \in FaultItems : Input(s)) \/ Output \/ Eof

SpecFault == InitFault /\ [][NextFault]_vars

---------------------------------------------------------------------------
(* What the claims speak of *)

\* the string a stage stores for the string s it is given
Stored(st, s) ==
    CASE st.cls = "StrProcUpper" -> upper(s)
      [] st.cls = "StrProcRemoveControlChars" -> translate(s)
      [] st.cls = "StrProcReplaceTabs" -> replace_tabs(s, st.spaces_per_tab)
      [] OTHER -> s

\* the string s after the stages k, k+1, ... of the list
RECURSIVE Through(_, _, _)
Through(stages, k, s) ==
    IF k > Len(stages) THEN s ELSE Through(stages, k + 1, Stored(stages[k], s))

\* a pipeline of single-slot forwarding stages and buffers only
OrderPreserving(o) ==
    /\ IsPipe(o)
    /\ \A k \in 1..Len(o.pipe_processes) :
          o.pipe_processes[k].cls \in TransitClasses \cup {"StrBuffer"}

TailOf(o) == o.pipe_processes[Len(o.pipe_processes)]

HeadOf(o) == o.pipe_processes[1]

\* the step is a call of the operation op on obj
Called(op) == lastCall'.op = op /\ <<inputs, outputs, lastCall>>' # <<inputs, outputs, lastCall>>

\* the last string an input() call accepted
LastAccepted == LET ok == SelectSeq(inputs, LAMBDA e : e.ok) IN ok[Len(ok)].s

\* a leaf stage that holds nothing
Empty(st) == st.buffer_str = <<>> /\ st.buffer = <<>>

---------------------------------------------------------------------------
(* C1 - FIFO preservation.  In a pipeline of order-preserving stages every *)
(* input() is accepted, and the strings output() has returned, followed by *)
(* the strings still waiting in the tail, are the strings given to         *)
(* input(), each transformed by every stage, in the order they were given: *)
(* none reordered, duplicated or skipped.                                  *)
C1_FifoPreservation ==
    OrderPreserving(obj) =>
        /\ \A i \in 1..Len(inputs) : inputs[i].ok
        /\ outputs \o TailOf(obj).buffer =
              [i \in 1..Len(inputs) |-> Through(obj.pipe_processes, 1, inputs[i].s)]

C1_Witness ==
    /\ OrderPreserving(obj)
    /\ Len(obj.pipe_processes) = 3
    /\ Len(outputs) = 2
    /\ outputs[1] # outputs[2]
    /\ outputs[1] # inputs[1].s
    /\ lastCall.op = "output"

(* C2 - Backpressure on a bare single-slot stage.  input(b) on a stage     *)
(* whose slot is occupied fails with the buffer-full BrokenPipeError and   *)
(* changes nothing: the stage still reports has_output and its next        *)
(* output() returns the transform of the string it accepted before.        *)
C2_SecondInputRejected ==
    [][(/\ obj.cls \in TransitClasses
        /\ obj.buffer_str # <<>>
        /\ Called("input"))
       => /\ lastCall'.err = ErrFull
          /\ obj' = obj
          /\ has_output(state(obj').value)
          /\ output(obj').item = <<Stored(obj, LastAccepted)>>]_vars

C2_Witness ==
    /\ obj.cls = "StrProcUpper"
    /\ Len(inputs) = 2
    /\ inputs[1].ok /\ ~inputs[2].ok
    /\ inputs[1].s # inputs[2].s
    /\ lastCall.op = "input" /\ lastCall.err = ErrFull
    /\ obj.buffer_str = <<upper(inputs[1].s)>>

(* C3 - output() on an empty stage, of every stage kind, fails with the    *)
(* buffer-empty BrokenPipeError and leaves the stage unchanged and         *)
(* accepting input.                                                        *)
C3_EmptyOutputIsBackpressure ==
    [][(/\ obj.cls \in LeafClasses
        /\ Empty(obj)
        /\ Called("output"))
       => /\ lastCall'.err = ErrEmpty
          /\ obj' = obj
          /\ can_input(state(obj').value)]_vars

(* C4 - the state a pipeline reports has has_output exactly when the tail  *)
(* stage has it, and has can_input whenever stage 0 has it.                *)
C4_StateReportsBoth ==
    (IsPipe(obj) /\ state(obj).err = OK) =>
        /\ has_output(state(obj).value) <=> has_output(state(TailOf(obj)).value)
        /\ can_input(state(HeadOf(obj)).value) => can_input(state(obj).value)

(* C5 - a StrBuffer reports has_output exactly when its queue is not       *)
(* empty, and reports can_input always.                                    *)
C5_BufferReadiness ==
    obj.cls = "StrBuffer" =>
        /\ has_output(state(obj).value) <=> obj.buffer # <<>>
        /\ can_input(state(obj).value)

(* C6 - a stage of a class that declares no_output never reports          *)
(* has_output, whatever it has been given.                                 *)
C6_SinkNeverHasOutput ==
    "no_output" \in class_flags(obj.cls) => ~has_output(state(obj).value)

(* C7 - state() of a pipeline raises the invalid-state BrokenPipeError     *)
(* exactly when the tail stage reports no output and stage 0 reports that  *)
(* it cannot accept input; otherwise it raises nothing and returns a state *)
(* that has has_output or can_input.                                       *)
C7_DeadlockExactly ==
    (IsPipe(obj) /\ state(TailOf(obj)).err = OK /\ state(HeadOf(obj)).err = OK) =>
        /\ state(obj).err = ErrInvalid <=>
              (/\ ~has_output(state(TailOf(obj)).value)
               /\ ~can_input(state(HeadOf(obj)).value))
        /\ state(obj).err # ErrInvalid =>
              (/\ state(obj).err = OK
               /\ has_output(state(obj).value) \/ can_input(state(obj).value))

C7_Witness ==
    /\ IsPipe(obj)
    /\ lastCall.op = "direct input" /\ lastCall.err = OK
    /\ ~has_output(state(TailOf(obj)).value)
    /\ ~can_input(state(HeadOf(obj)).value)
    /\ state(obj).err = ErrInvalid

(* C8 - Composability.  A pipeline with a pipeline built from A nested as  *)
(* its first stage, followed by B, returns from output() the same strings  *)
(* in the same order as the pipeline built from A + B, under the same      *)
(* calls.                                                                  *)
C8_NestedEqualsFlat == outputs = flatOutputs

C8_Witness ==
    /\ IsPipe(HeadOf(obj))
    /\ Len(obj.pipe_processes) = 3
    /\ Len(outputs) = 2
    /\ outputs[1] # outputs[2]
    /\ outputs[1] # inputs[1].s
    /\ Len(HeadOf(obj).pipe_processes) = 2

(* C9 - no call of input() or eof() ends in an exception that              *)
(* str_pipe_process raised by calling input() on an occupied single-slot   *)
(* stage or output() on an empty stage.                                    *)
C9_NoBackpressureFromDraining ==
    ~(lastCall.in_drain /\ lastCall.err \in {ErrFull, ErrEmpty, ErrIndex})

C9_Witness ==
    /\ IsPipe(obj) /\ IsPipe(HeadOf(obj))
    /\ Len(obj.pipe_processes) = 3
    /\ lastCall.op = "input" /\ lastCall.err = OK
    /\ Len(TailOf(obj).buffer) = 2

(* The rank of a running str_pipe_process, and what its sweep has found *)

RECURSIVE Held(_)
RECURSIVE HeldIn(_, _)
\* the number of strings the stages k, k+1, ... of the list hold
HeldIn(stages, k) ==
    IF k > Len(stages) THEN 0 ELSE Held(stages[k]) + HeldIn(stages, k + 1)

\* the number of strings a stage holds
Held(st) == Len(st.buffer_str) + Len(st.buffer) + HeldIn(st.pipe_processes, 1)

RECURSIVE Distance(_, _)
\* the hand-offs the strings held in the stages k, k+1, ... are away from the tail
Distance(stages, k) ==
    IF k > Len(stages) THEN 0
    ELSE Held(stages[k]) * (Len(stages) - k) + Distance(stages, k + 1)

Rank == Distance(obj.pipe_processes, 1) * Len(obj.pipe_processes) + pos

SweptClean ==
    \A k \in (pos + 1)..(Len(obj.pipe_processes) - 1) :
        ~has_output(state(obj.pipe_processes[k]).value)

(* C10 - Draining terminates at a fixpoint.  While str_pipe_process runs,  *)
(* no stage from pos to len-2 reports has_output (the sweep so far found   *)
(* none); every iteration that does not end the loop lowers a rank that    *)
(* is never negative (the strings held, weighted by their distance to the  *)
(* tail, then pos), so only finitely many hand-offs happen; the loop ends  *)
(* only with pos = 0, after a sweep from len-2 down to 0 that found no     *)
(* stage with output, never by an exception; and with pos = 0 it ends at   *)
(* once.                                                                   *)
C10_DrainTerminatesAtFixpoint ==
    [][/\ pc' = "drain" => SweptClean'
       /\ (pc = "drain" /\ pc' = "drain") => (Rank' < Rank /\ Rank' >= 0)
       /\ (pc = "drain" /\ pc' = "idle") => (pos = 0 /\ SweptClean /\ lastCall'.err = OK)
       /\ (pc = "drain" /\ pos = 0) => pc' = "idle"]_vars

C10_Witness ==
    /\ pc = "drain" /\ pos = 0
    /\ lastCall.op = "input"
    /\ Len(obj.pipe_processes) = 3
    /\ Len(TailOf(obj).buffer) = 2

(* Quiescence of a pipeline, and of the pipelines nested in it *)

RECURSIVE Quiescent(_)
\* no stage before the tail reports has_output, in o and in every pipeline
\* nested in o
Quiescent(o) ==
    /\ \A k \in 1..(Len(o.pipe_processes) - 1) :
          /\ state(o.pipe_processes[k]).err = OK
          /\ ~has_output(state(o.pipe_processes[k]).value)
    /\ \A k \in 1..Len(o.pipe_processes) :
          IsPipe(o.pipe_processes[k]) => Quiescent(o.pipe_processes[k])

(* C11 - Draining runs to quiescence inside input() and eof().  Between    *)
(* the caller's calls on a pipeline, whatever calls came before, a call of *)
(* input() or eof() has returned normally, no stage before the tail        *)
(* reports has_output, in the pipeline and in every pipeline nested in it, *)
(* and every string the pipeline holds is in its tail stage.               *)
C11_QuiescentAfterReturn ==
    IsPipe(obj) =>
        /\ lastCall.op \in {"input", "eof"} => lastCall.err = OK
        /\ Quiescent(obj)
        /\ Held(obj) = Held(TailOf(obj))

C11_Witness ==
    /\ IsPipe(obj) /\ IsPipe(HeadOf(obj))
    /\ Len(obj.pipe_processes) = 3
    /\ obj.pipe_processes[2].cls = "StrProcUpper"
    /\ lastCall.op = "input"
    /\ Len(inputs) = 2
    /\ Len(outputs) = 1
    /\ Held(TailOf(obj)) = 1

(* C12 - Idempotence of draining.  Between the caller's calls on a         *)
(* pipeline, str_pipe_process run once more makes no hand-off, raises      *)
(* nothing and leaves every stage as it is, and so does eof(), which       *)
(* prints nothing either.                                                  *)
C12_DrainIdempotent ==
    IsPipe(obj) =>
        /\ LET d == str_pipe_process(obj.pipe_processes)
           IN  d.handoffs = 0 /\ d.err = OK /\ d.stages = obj.pipe_processes
        /\ LET e == eof(obj)
           IN  e.err = OK /\ e.self = obj /\ e.printed = <<>>

C12_Witness ==
    /\ IsPipe(obj)
    /\ Len(obj.pipe_processes) = 3
    /\ lastCall.op = "eof" /\ lastCall.err = OK
    /\ Len(inputs) = 2
    /\ Len(TailOf(obj).buffer) = 2

(* C13 - The auto-appended tail buffer.  StrProcPipeProcess() given a      *)
(* list whose last stage declares is_infinity_input makes a pipeline of    *)
(* exactly the given stages; given a list whose last stage does not, it    *)
(* makes a pipeline of one stage more: the given stages followed by a new, *)
(* empty StrBuffer.                                                        *)
C13_AutoAppendedBuffer ==
    [][Called("__init__") =>
          LET n == Len(given)
              made == obj'.pipe_processes
          IN  IF "is_infinity_input" \in class_flags(given[n].cls)
              THEN Len(made) = n /\ made = given
              ELSE /\ Len(made) = n + 1
                   /\ SubSeq(made, 1, n) = given
                   /\ made[n + 1] = NewStage("StrBuffer")]_vars

C13_Witness ==
    /\ lastCall.op = "__init__"
    /\ Len(obj.pipe_processes) = 3
    /\ obj.pipe_processes[1].cls = "StrProcNull"
    /\ obj.pipe_processes[2].cls = "StrProcPrintFinal"
    /\ obj.pipe_processes[3] = NewStage("StrBuffer")

(* C14 - The pipeline of [StrProcUpper, sink].  After every input() on a   *)
(* pipeline built from StrProcUpper followed by StrProcNull or             *)
(* StrProcPrintFinal, the call has returned normally, stage 0 is empty     *)
(* again, and state() raises nothing, does not report has_output and       *)
(* reports can_input.                                                      *)
C14_UpperSinkScenario ==
    (/\ IsPipe(obj)
     /\ HeadOf(obj).cls = "StrProcUpper"
     /\ obj.pipe_processes[2].cls \in SinkClasses
     /\ lastCall.op = "input")
    => /\ lastCall.err = OK
       /\ Empty(HeadOf(obj))
       /\ state(obj).err = OK
       /\ ~has_output(state(obj).value)
       /\ can_input(state(obj).value)

C14_Witness ==
    /\ HeadOf(obj).cls = "StrProcUpper"
    /\ obj.pipe_processes[2].cls = "StrProcPrintFinal"
    /\ lastCall.op = "input"
    /\ Len(inputs) = 3
    /\ printed = [i \in 1..3 |-> upper(inputs[i].s)]
    /\ printed[3] # inputs[3].s

\* the deletion of every character of code 0..31 except tab, LF and CR
StripControls(s) == SelectSeq(s, LAMBDA c : c \notin 0..31 \/ c \in {9, 10, 13})

\* 'HELLO', eight spaces, 'WORLD'
HelloOut == <<72, 69, 76, 76, 79, 32, 32, 32, 32, 32, 32, 32, 32, 87, 79, 82, 76, 68>>

\* a pipeline built from [StrProcRemoveControlChars, StrProcReplaceTabs(N), StrProcUpper]
StripTabsUpper(o) ==
    /\ IsPipe(o)
    /\ Len(o.pipe_processes) = 4
    /\ o.pipe_processes[1].cls = "StrProcRemoveControlChars"
    /\ o.pipe_processes[2].cls = "StrProcReplaceTabs"
    /\ o.pipe_processes[3].cls = "StrProcUpper"

(* C15 - Transforms compose in stage order.  In a pipeline built from      *)
(* [StrProcRemoveControlChars, StrProcReplaceTabs(N), StrProcUpper] the    *)
(* i-th string output() returns is the i-th string given, with its control *)
(* characters other than tab, LF and CR deleted, then each tab replaced by *)
(* N spaces, then upper-cased; for 'Hello\x01\tworld\x03' and N = 8 it is  *)
(* 'HELLO', eight spaces, 'WORLD'; and once as many strings have been      *)
(* returned as were given, the pipeline reports no output.                 *)
C15_TransformsCompose ==
    StripTabsUpper(obj) =>
        LET N == obj.pipe_processes[2].spaces_per_tab
        IN  /\ Len(outputs) <= Len(inputs)
            /\ \A i \in 1..Len(outputs) :
                  /\ outputs[i] = upper(replace_tabs(StripControls(inputs[i].s), N))
                  /\ (inputs[i].s = Hello /\ N = 8) => outputs[i] = HelloOut
            /\ Len(outputs) = Len(inputs) =>
                  (state(obj).err = OK /\ ~has_output(state(obj).value))

C15_Witness ==
    /\ StripTabsUpper(obj)
    /\ obj.pipe_processes[2].spaces_per_tab = 8
    /\ inputs = <<[s |-> Hello, ok |-> TRUE]>>
    /\ outputs = <<HelloOut>>
    /\ lastCall.op = "output"
    /\ ~has_output(state(obj).value)

(* C16 - output() of a pipeline delegates to the tail.  When the tail      *)
(* stage has output, output() returns the string the tail's output()       *)
(* returns (the oldest one of a StrBuffer), removes that string only,      *)
(* prints nothing and leaves every other stage as it is; when the tail has *)
(* no output, it fails with the buffer-empty BrokenPipeError and changes   *)
(* nothing.                                                                *)
C16_OutputDelegatesToTail ==
    [][(IsPipe(obj) /\ Called("output")) =>
          LET n == Len(obj.pipe_processes)
              tail == output(TailOf(obj))
          IN  IF has_output(state(TailOf(obj)).value)
              THEN /\ lastCall'.err = OK
                   /\ lastCall'.item = tail.item
                   /\ TailOf(obj).cls = "StrBuffer" =>
                         lastCall'.item = <<Head(TailOf(obj).buffer)>>
                   /\ obj' = [obj EXCEPT !.pipe_processes[n] = tail.self]
                   /\ Held(obj') = Held(obj) - 1
                   /\ printed' = printed
              ELSE /\ lastCall'.err = ErrEmpty
                   /\ obj' = obj]_vars

(* C17 - Restartable iteration.  Each resumption of the iteration of a     *)
(* pipeline yields the string output() returns while the pipeline reports  *)
(* has_output, and ends the loop when it does not, leaving the tail empty; *)
(* when a loop ends on a pipeline of order-preserving stages, whatever     *)
(* loops and calls came before, every string given so far has been         *)
(* yielded, once, in the order given: a new loop yields the new strings.   *)
C17_RestartableIteration ==
    [][Called("next") =>
          /\ state(obj).err = OK
          /\ lastCall'.err = OK
          /\ IF has_output(state(obj).value)
             THEN /\ pc' = "iter"
                  /\ lastCall'.item = output(obj).item
                  /\ obj' = output(obj).self
                  /\ outputs' = Append(outputs, lastCall'.item[1])
             ELSE /\ pc' = "idle"
                  /\ obj' = obj /\ outputs' = outputs
                  /\ Held(TailOf(obj')) = 0
                  /\ OrderPreserving(obj) =>
                        outputs' = [i \in 1..Len(inputs) |->
                                       Through(obj.pipe_processes, 1, inputs[i].s)]]_vars

C17_Witness ==
    /\ OrderPreserving(obj)
    /\ Len(inputs) = 2
    /\ outputs = <<upper(inputs[1].s), upper(inputs[2].s)>>
    /\ outputs[1] # outputs[2]
    /\ exhaustedAt = 1
    /\ lastCall.op = "next" /\ lastCall.item = <<outputs[2]>>
    /\ pc = "iter"
    /\ Held(obj) = 0

RECURSIVE Consumed(_)
RECURSIVE ConsumedIn(_, _)
\* the number of strings the sinks among the stages k, k+1, ... have consumed
ConsumedIn(stages, k) ==
    IF k > Len(stages) THEN 0 ELSE Consumed(stages[k]) + ConsumedIn(stages, k + 1)

\* the number of strings the sinks in a stage have consumed
Consumed(st) == st.consumed + ConsumedIn(st.pipe_processes, 1)

\* the number of input() calls on obj that stage 0 accepted
Accepted == Len(SelectSeq(inputs, LAMBDA e : e.ok))

(* C18 - Conservation of strings.  Between calls and after every iteration *)
(* of a running str_pipe_process (a hand-off takes the string out of one   *)
(* stage and puts it into the next within one iteration), the number of    *)
(* strings input() has accepted is the number the stages hold, each string *)
(* counted in the one stage that holds it, plus the number output() has    *)
(* returned plus the number the sinks have consumed.                       *)
C18_Conservation ==
    Accepted = Held(obj) + Len(outputs) + Consumed(obj)

C18_Witness ==
    /\ pc = "drain" /\ pos > 0
    /\ Len(obj.pipe_processes) = 3
    /\ Accepted = 2
    /\ Consumed(obj) = 1
    /\ Held(obj) = 1 /\ Held(TailOf(obj)) = 0

\* a single-slot stage that forwards what it is given
Forwarding(o) == o.cls \in TransitClasses

\* the slot holds at most one string, and state() reports has_output exactly
\* when it holds one and can_input exactly when it holds none
SlotReadiness(o) ==
    /\ Len(o.buffer_str) <= 1
    /\ state(o).err = OK
    /\ has_output(state(o).value) <=> o.buffer_str # <<>>
    /\ can_input(state(o).value) <=> o.buffer_str = <<>>

(* C19 - Readiness and capacity of a single-slot stage.  Before and after  *)
(* every call of input(), output() or eof() on a forwarding single-slot    *)
(* stage, failing calls included, the stage holds at most one string and   *)
(* state() reports has_output exactly when the slot is occupied and        *)
(* can_input exactly when it is empty; an output() that succeeds returns   *)
(* the stored string and empties the slot, one that fails and an input()   *)
(* that fails leave the slot as it is.                                     *)
C19_TransitReadiness ==
    [][Forwarding(obj) =>
          /\ SlotReadiness(obj) /\ SlotReadiness(obj')
          /\ (Called("output") /\ lastCall'.err = OK) =>
                (lastCall'.item = obj.buffer_str /\ obj.buffer_str # <<>>
                    /\ obj'.buffer_str = <<>>)
          /\ ((Called("output") \/ Called("input")) /\ lastCall'.err # OK) =>
                obj' = obj]_vars

C19_Witness ==
    /\ obj.cls = "StrProcReplaceTabs"
    /\ Len(inputs) = 2
    /\ inputs[1].ok /\ ~inputs[2].ok
    /\ lastCall.op = "output" /\ lastCall.err = OK
    /\ lastCall.item = <<replace_tabs(inputs[1].s, default_spaces_per_tab)>>
    /\ lastCall.item # <<inputs[1].s>>
    /\ obj.buffer_str = <<>>

(* C20 - A StrBuffer is an unbounded first-in first-out queue.  Under any  *)
(* interleaving of input() and output() calls on a StrBuffer, no input()   *)
(* fails, however many strings are queued, and the strings output() has    *)
(* returned, followed by the strings still queued, are the strings given   *)
(* to input(), unchanged, in the order given.                              *)
C20_BufferUnboundedFifo ==
    obj.cls = "StrBuffer" =>
        /\ \A i \in 1..Len(inputs) : inputs[i].ok
        /\ outputs \o obj.buffer = [i \in 1..Len(inputs) |-> inputs[i].s]

C20_Witness ==
    /\ obj.cls = "StrBuffer"
    /\ Len(inputs) = 2
    /\ inputs[1].s # inputs[2].s
    /\ outputs = <<inputs[1].s, inputs[2].s>>
    /\ lastCall.op = "output" /\ lastCall.err = OK
    /\ obj.buffer = <<>>

(* The hand-offs of a running str_pipe_process *)

\* the step is an iteration that called output() on a stage and input() on the next
HandOff == pc = "drain" /\ obj' # obj

\* the number of strings the stages before the tail hold
HeldBeforeTail == Held(obj) - Held(TailOf(obj))

\* the step took a string out of stage k
PulledFrom(k) == Held(obj'.pipe_processes[k]) < Held(obj.pipe_processes[k])

(* C21 - The draining algorithm respects the contract of input() and       *)
(* output().  Every hand-off of str_pipe_process takes the string from a   *)
(* stage whose state() reports has_output and gives it to the next stage   *)
(* while the state() of that stage reports can_input, also when the tail   *)
(* still holds strings the caller has not retrieved.                       *)
C21_DrainRespectsContract ==
    [][HandOff =>
          \E k \in 1..(Len(obj.pipe_processes) - 1) :
              /\ PulledFrom(k)
              /\ has_output(state(obj.pipe_processes[k]).value)
              /\ can_input(state(obj.pipe_processes[k + 1]).value)]_vars

(* C22 - Rightmost first.  Every hand-off of str_pipe_process takes the    *)
(* string from the rightmost stage before the tail that reports            *)
(* has_output at that moment: no stage between it and the tail reports     *)
(* has_output; and after the hand-off the scan starts again at the stage   *)
(* before the tail (pos = len - 1, decremented before the next test).      *)
C22_RightmostFirst ==
    [][HandOff =>
          \E k \in 1..(Len(obj.pipe_processes) - 1) :
              /\ PulledFrom(k)
              /\ k = pos
              /\ has_output(state(obj.pipe_processes[k]).value)
              /\ \A j \in (k + 1)..(Len(obj.pipe_processes) - 1) :
                    ~has_output(state(obj.pipe_processes[j]).value)
              /\ pos' = Len(obj.pipe_processes) - 1
              /\ pc' = "drain"]_vars

C22_Witness ==
    /\ pc = "drain"
    /\ Len(obj.pipe_processes) = 3
    /\ pos = 2
    /\ obj.pipe_processes[2].cls = "StrProcUpper"
    /\ HeldBeforeTail = 0
    /\ Held(TailOf(obj)) = 2
    /\ Len(inputs) = 2

(* C23 - Minimal intermediate occupancy.  Between calls and after every    *)
(* iteration of a running str_pipe_process, however many input() calls     *)
(* were made and whether or not output() was called, at most one stage     *)
(* before the tail holds a string, and it holds one string only.           *)
C23_MinimalOccupancy ==
    IsPipe(obj) =>
        /\ Cardinality({k \in 1..(Len(obj.pipe_processes) - 1) :
                           Held(obj.pipe_processes[k]) > 0}) <= 1
        /\ HeldBeforeTail <= 1

C23_Witness ==
    /\ pc = "drain"
    /\ Len(obj.pipe_processes) = 3
    /\ obj.pipe_processes[1].cls = "StrProcPrint"
    /\ obj.pipe_processes[2].cls = "StrProcUpper"
    /\ Held(obj.pipe_processes[2]) = 1
    /\ Len(inputs) = 2 /\ outputs = <<>>
    /\ Held(TailOf(obj)) = 1

(* The work of one input() call on the pipeline o *)

\* the stage list when str_pipe_process starts: stage 0 has been given s
StagesAtDrainStart(o, s) ==
    [o.pipe_processes EXCEPT ![1] = input(o.pipe_processes[1], s).self]

\* the number of hand-offs str_pipe_process makes within o.input(s)
HandoffsOfInput(o, s) == str_pipe_process(StagesAtDrainStart(o, s)).handoffs

\* the number of stages, the tail included, that report has_output when
\* str_pipe_process starts within o.input(s)
PendingStages(o, s) ==
    Cardinality({k \in 1..Len(o.pipe_processes) :
                    has_output(state(StagesAtDrainStart(o, s)[k]).value)})

(* C24 - Work bound per input(), as stated.  The number of hand-offs       *)
(* str_pipe_process makes within one input() call on a pipeline is at most *)
(* the number of stages that had pending output at the time of the call.   *)
C24_WorkBoundPendingStages ==
    [][(IsPipe(obj) /\ Called("input") /\ lastCall'.err = OK) =>
          HandoffsOfInput(obj, lastCall'.arg[1]) <= PendingStages(obj, lastCall'.arg[1])]_vars

(* C24 - Work bound per input(), amended.  The number of hand-offs         *)
(* str_pipe_process makes within one input() call on a pipeline is at most *)
(* the number of stages before the tail, len - 1, and it is exactly        *)
(* len - 1 in a pipeline of order-preserving stages: the string given      *)
(* is handed from each stage to the next until it is in the tail.          *)
C24_WorkBoundStages ==
    [][(IsPipe(obj) /\ Called("input") /\ lastCall'.err = OK) =>
          LET n == HandoffsOfInput(obj, lastCall'.arg[1])
          IN  /\ n <= Len(obj.pipe_processes) - 1
              /\ OrderPreserving(obj) => n = Len(obj.pipe_processes) - 1]_vars

C24_Witness ==
    /\ OrderPreserving(obj)
    /\ Len(obj.pipe_processes) = 3
    /\ obj.pipe_processes[1].cls = "StrProcRemoveControlChars"
    /\ obj.pipe_processes[2].cls = "StrProcReplaceTabs"
    /\ lastCall.op = "input" /\ lastCall.err = OK
    /\ Len(inputs) = 1
    /\ TailOf(obj).buffer = <<Through(obj.pipe_processes, 1, inputs[1].s)>>
    /\ TailOf(obj).buffer # <<inputs[1].s>>

(* C25 - Termination measure, as stated.  Every hand-off of                *)
(* str_pipe_process strictly reduces the number of strings the stages of   *)
(* the pipeline hold.                                                      *)
C25_HandOffReducesHeld ==
    [][HandOff => Held(obj') < Held(obj)]_vars

(* C25 - Termination measure, amended.  Every hand-off of str_pipe_process *)
(* moves one string one stage forward without duplicating it: the number   *)
(* of strings held stays the same, or falls by one when the receiving      *)
(* stage is a sink that consumes the string, the strings held and consumed *)
(* together stay the same, and what strictly falls is the number of        *)
(* hand-offs the held strings are away from the tail.                      *)
C25_HandOffMovesForward ==
    [][HandOff =>
          /\ Held(obj') \in {Held(obj), Held(obj) - 1}
          /\ Held(obj') + Consumed(obj') = Held(obj) + Consumed(obj)
          /\ Distance(obj'.pipe_processes, 1) < Distance(obj.pipe_processes, 1)
          /\ \E k \in 1..(Len(obj.pipe_processes) - 1) :
                /\ Held(obj'.pipe_processes[k]) = Held(obj.pipe_processes[k]) - 1
                /\ Held(obj'.pipe_processes[k + 1]) + Consumed(obj'.pipe_processes[k + 1])
                      = Held(obj.pipe_processes[k + 1])
                          + Consumed(obj.pipe_processes[k + 1]) + 1]_vars

C25_Witness ==
    /\ pc = "drain"
    /\ Len(obj.pipe_processes) = 3
    /\ pos = 2
    /\ obj.pipe_processes[1].cls = "StrProcPrint"
    /\ obj.pipe_processes[2].cls = "StrProcUpper"
    /\ Held(obj.pipe_processes[2]) = 1
    /\ Held(obj) = 1
    /\ printed = <<inputs[1].s>>

(* C26 - The invalid state is unreachable.  For every pipeline built from  *)
(* the built-in stages, pipelines nested in it included, and after every   *)
(* sequence of input(), eof() and output() calls on it, state() raises     *)
(* nothing and returns one of has_output_default, has_output_and_can_input *)
(* and can_input_default.                                                  *)
C26_DeadlockUnreachable ==
    IsPipe(obj) =>
        /\ state(obj).err = OK
        /\ state(obj).value \in {has_output_default, has_output_and_can_input,
                                  can_input_default}
        /\ \A k \in 1..Len(obj.pipe_processes) : state(obj.pipe_processes[k]).err = OK

C26_Witness ==
    /\ IsPipe(obj) /\ IsPipe(HeadOf(obj))
    /\ Len(HeadOf(obj).pipe_processes) = 3
    /\ Len(inputs) = 2 /\ Len(outputs) = 1
    /\ lastCall.op = "eof"
    /\ state(obj) = [err |-> OK, value |-> has_output_and_can_input]

(* C27 - The pipeline always accepts input.  After every sequence of       *)
(* input(), output() and eof() calls on a pipeline, however many input()   *)
(* calls were made with no output() in between, every input() call made    *)
(* has returned normally, the next input() call returns normally whatever  *)
(* string it is given, and stage 0 holds nothing or declares               *)
(* is_infinity_input.                                                      *)
C27_AlwaysAcceptsInput ==
    IsPipe(obj) =>
        /\ \A i \in 1..Len(inputs) : inputs[i].ok
        /\ \A s \in Items : input(obj, s).err = OK
        /\ Held(HeadOf(obj)) = 0 \/ "is_infinity_input" \in class_flags(HeadOf(obj).cls)

C27_Witness ==
    /\ IsPipe(obj)
    /\ Len(obj.pipe_processes) = 3
    /\ HeadOf(obj).cls = "StrProcUpper"
    /\ obj.pipe_processes[2].cls = "StrProcPrint"
    /\ Len(inputs) = 2 /\ outputs = <<>>
    /\ lastCall.op = "input" /\ lastCall.err = OK
    /\ Len(TailOf(obj).buffer) = 2

(* C28 - No string is lost when a stage fails during a hand-off.  When an  *)
(* input() or eof() call on a pipeline ends in an exception that a stage's *)
(* input() raised inside str_pipe_process, the caller gets that exception  *)
(* and the value being handed over is still in the pipeline: what the      *)
(* stages hold or have consumed is what they held or had consumed before   *)
(* the call, plus the value the call gave to stage 0.                      *)
C28_NoItemLostOnFailure ==
    [][((Called("input") \/ Called("eof")) /\ IsPipe(obj)
            /\ lastCall'.in_drain /\ lastCall'.err # OK)
       => /\ lastCall'.err = ErrAttribute
          /\ Held(obj') + Consumed(obj')
                = Held(obj) + Consumed(obj) + (IF lastCall'.op = "input" THEN 1 ELSE 0)]_vars

(* C29 - A rejected input on a StrProcPrint leaves no trace.  An input()   *)
(* call on a StrProcPrint whose slot is occupied raises the full-slot      *)
(* BrokenPipeError, prints nothing and leaves the slot as it was.          *)
C29_RejectedInputNoPrint ==
    [][(obj.cls = "StrProcPrint" /\ obj.buffer_str # <<>> /\ Called("input"))
       => /\ lastCall'.err = ErrFull
          /\ obj' = obj
          /\ printed' = printed]_vars

\* the lines the stages k, k+1, ... of the list print when the string s
\* passes through them, in stage order
RECURSIVE PrintTrace(_, _, _)
PrintTrace(stages, k, s) ==
    IF k > Len(stages) THEN <<>>
    ELSE IF stages[k].cls = "StrProcPrint"
         THEN <<s>> \o PrintTrace(stages, k + 1, s)
         ELSE PrintTrace(stages, k + 1, Stored(stages[k], s))

\* the lines printed for the first n strings given, string after string
RECURSIVE PrintTraces(_, _)
PrintTraces(stages, n) ==
    IF n = 0 THEN <<>>
    ELSE PrintTraces(stages, n - 1) \o PrintTrace(stages, 1, inputs[n].s)

PrintStages(o) == {k \in 1..Len(o.pipe_processes) : o.pipe_processes[k].cls = "StrProcPrint"}

(* C30 - Ordering of the print events.  In a pipeline of forwarding stages *)
(* with StrProcPrint stages at positions i < j, after any number of        *)
(* input() calls the lines printed are, string after string in the order   *)
(* the strings were given, the lines of that string in stage order: every  *)
(* string is printed at i before j, every line of an earlier string comes  *)
(* before any line of a later one, and each string is printed exactly once *)
(* by each StrProcPrint.                                                   *)
C30_PrintOrdering ==
    (OrderPreserving(obj) /\ Cardinality(PrintStages(obj)) >= 2)
    => /\ \A i \in 1..Len(inputs) : inputs[i].ok
       /\ printed = PrintTraces(obj.pipe_processes, Len(inputs))
       /\ Len(printed) = Len(inputs) * Cardinality(PrintStages(obj))

C30_Witness ==
    /\ OrderPreserving(obj)
    /\ PrintStages(obj) = {1, 3}
    /\ obj.pipe_processes[2].cls = "StrProcUpper"
    /\ Len(inputs) = 2
    /\ inputs[1].s # inputs[2].s
    /\ upper(inputs[1].s) # inputs[1].s
    /\ printed = <<inputs[1].s, upper(inputs[1].s), inputs[2].s, upper(inputs[2].s)>>
    /\ lastCall.op = "input"

====
